---- MODULE Spec2Model ----
(***************************************************************************)
(* Model of zipline/optimize/factory.py: the up/down trade source          *)
(* generator create_updown_trade_source and the composer                   *)
(* create_predictable_zipline.                                             *)
(*                                                                         *)
(* Python objects live in heaps indexed by object id, so that aliasing and *)
(* identity are visible.  A dict is a function from a set of key strings   *)
(* to values.  Instants are day numbers; timedelta(days = 1) is 1.         *)
(* Prices are kept in half units (the stored number is twice the price):   *)
(* base_price - amplitude/2. is a float division, exact in halves.         *)
(***************************************************************************)
EXTENDS Integers, Sequences, FiniteSets, TLC

VARIABLES
    pc,        \* position in the code ("L<line>", "returned" or "raised")
    args,      \* the arguments of create_predictable_zipline
    before,    \* history: the caller's mapping as it was when the call began
    cpz,       \* locals of create_predictable_zipline (name -> value)
    gen,       \* locals of create_updown_trade_source (name -> value)
    dicts,     \* heap of dict objects (id -> dict)
    envs,      \* heap of trading environments
    sources,   \* heap of SpecificEquityTrades objects
    algos,     \* heap of BuySellAlgorithm objects
    ziplines,  \* heap of SimulatedTrading objects
    nextId,    \* next free object id
    calls,     \* history: collaborator calls and attribute writes, in order
    exc,       \* the exception propagating to the caller, or "none"
    result     \* the returned tuple, <<>> while nothing is returned

vars == <<pc, args, before, cpz, gen, dicts, envs, sources, algos, ziplines,
          nextId, calls, exc, result>>

(* ---------------------------- bounds ----------------------------------- *)
MaxNegTradeCount == 3
MaxTradeCount == 2
MaxClosedDay == 3
MaxFirstOpen == 2

(* ------------------------ program constants ---------------------------- *)
volume == 1000
one_day == 1
DefaultAmplitude == 10
DefaultBasePrice == 50
DefaultTradeCount == 3
OrderAmount == 100
FIXED_SLIPPAGE == "FIXED_SLIPPAGE"
TRADE == "TRADE"
PeriodEndDefault == 365

(* ------------------------------ dicts ---------------------------------- *)
EmptyDict == [k \in {} |-> 0]

Has(d, k) == k \in DOMAIN d

SetItem(d, k, v) == [x \in DOMAIN d \cup {k} |-> IF x = k THEN v ELSE d[x]]

DelItem(d, k) == [x \in DOMAIN d \ {k} |-> d[x]]

\* dict.pop(k, default): the value and the dict without the key
PopValue(d, k, default) == IF Has(d, k) THEN d[k] ELSE default

(* --------------------------- iterators --------------------------------- *)
xrange(n) == 0 .. (n - 1)

\* variant: cycle([-1,1])
cycleDownFirst(n) == IF n % 2 = 0 THEN -1 ELSE 1

\* cycle([1,-1]): the n-th call of next() (n counted from 0)
cycle(n) == IF n % 2 = 0 THEN 1 ELSE -1

(* ------------------- objects owned by the caller ----------------------- *)
CallerObjects == <<"config", "algorithm", "trade_source", "environment">>

Id(name) == CHOOSE i \in 1 .. Len(CallerObjects) : CallerObjects[i] = name

(* ------------------------- the caller's inputs ------------------------- *)
SidOpts == {EmptyDict, "sid" :> 1}
AmplitudeOpts == {EmptyDict, "amplitude" :> 0, "amplitude" :> 3}
BasePriceOpts == {EmptyDict, "base_price" :> 7}
TradeCountOpts ==
    {EmptyDict} \cup {"trade_count" :> n : n \in -MaxNegTradeCount .. MaxTradeCount}
AlgorithmOpts == {EmptyDict, "algorithm" :> Id("algorithm")}
OrderCountOpts == {EmptyDict, "order_count" :> 9}
OverwrittenOpts ==
    {EmptyDict,
     "trade_source" :> Id("trade_source") @@ "environment" :> Id("environment")
        @@ "simulation_style" :> "PARTIAL_VOLUME"}
PassthroughOpts == {EmptyDict, "capital_base" :> 1000}

CallerConfigs ==
    {a @@ b @@ c @@ d @@ e @@ f @@ g @@ h :
        a \in SidOpts, b \in AmplitudeOpts, c \in BasePriceOpts,
        d \in TradeCountOpts, e \in AlgorithmOpts, f \in OrderCountOpts,
        g \in OverwrittenOpts, h \in PassthroughOpts}

Offsets == {0, 5}

(* --------------------------- the calendar ------------------------------ *)
\* An environment: first_open, period_end and the closed (non-trading) days.
Environments ==
    UNION {{[first_open |-> fo, period_end |-> fo + PeriodEndDefault,
             closed |-> cl] : cl \in SUBSET ((1 .. MaxClosedDay) \ {fo})} :
           fo \in 1 .. MaxFirstOpen}

RECURSIVE NextTradingDay(_, _)
NextTradingDay(d, env) ==
    IF d \notin env.closed THEN d ELSE NextTradingDay(d + 1, env)

\* the next valid trading instant at or after current + interval
get_next_trading_dt(current, interval, env) ==
    NextTradingDay(current + interval, env)

(* ------------------------------ frames --------------------------------- *)
\* no local is bound yet
NoFrame == [k \in {} |-> 0]

NoHeap == [o \in {} |-> 0]

Alloc(heap, obj) == [o \in DOMAIN heap \cup {nextId} |->
                        IF o = nextId THEN obj ELSE heap[o]]

Init ==
    /\ pc = "L109"
    /\ \E c \in CallerConfigs, o \in Offsets, s \in BOOLEAN :
          /\ args = [config |-> Id("config"), offset |-> o, simulate |-> s]
          /\ dicts = (Id("config") :> c)
          /\ before = c
    /\ cpz = NoFrame
    /\ gen = NoFrame
    /\ envs = NoHeap
    /\ sources = NoHeap
    /\ algos = NoHeap
    /\ ziplines = NoHeap
    /\ nextId = Len(CallerObjects) + 1
    /\ calls = <<>>
    /\ exc = "none"
    /\ result = <<>>

(* ---------------------- create_predictable_zipline --------------------- *)
Raise(e) ==
    /\ pc' = "raised"
    /\ exc' = e

\* variant: config = config (no copy, the local aliases the caller's dict)
CopyAlias ==
    /\ pc = "L109"
    /\ cpz' = SetItem(cpz, "config", args.config)
    /\ pc' = "L110"
    /\ UNCHANGED <<args, before, gen, dicts, envs, sources, algos, ziplines,
                   nextId, calls, exc, result>>

\* line 109: config = copy(config)
Copy ==
    /\ pc = "L109"
    /\ dicts' = Alloc(dicts, dicts[args.config])
    /\ cpz' = SetItem(cpz, "config", nextId)
    /\ nextId' = nextId + 1
    /\ pc' = "L110"
    /\ UNCHANGED <<args, before, gen, envs, sources, algos, ziplines, calls, exc, result>>

\* variant: sid = config.get('sid')
LookupSidGet ==
    /\ pc = "L110"
    /\ cpz' = SetItem(cpz, "sid", PopValue(dicts[cpz.config], "sid", 0))
    /\ pc' = "L112"
    /\ UNCHANGED <<args, before, gen, dicts, envs, sources, algos, ziplines,
                   nextId, calls, exc, result>>

\* line 110: sid = config['sid']
LookupSid ==
    /\ pc = "L110"
    /\ IF Has(dicts[cpz.config], "sid")
          THEN /\ cpz' = SetItem(cpz, "sid", dicts[cpz.config]["sid"])
               /\ pc' = "L112"
               /\ exc' = exc
          ELSE /\ Raise("KeyError")
               /\ cpz' = cpz
    /\ UNCHANGED <<args, before, gen, dicts, envs, sources, algos, ziplines, nextId,
                   calls, result>>

\* variant: config.get(key, default) in place of config.pop(key, default)
PopParamsGet ==
    /\ pc = "L112"
    /\ LET d == dicts[cpz.config] IN
          cpz' = SetItem(SetItem(SetItem(cpz,
                     "amplitude", PopValue(d, "amplitude", DefaultAmplitude)),
                     "base_price", PopValue(d, "base_price", DefaultBasePrice)),
                     "trade_count", PopValue(d, "trade_count", DefaultTradeCount))
    /\ pc' = "L116"
    /\ UNCHANGED <<args, before, gen, dicts, envs, sources, algos, ziplines,
                   nextId, calls, exc, result>>

\* lines 112-114: the three config.pop(key, default)
PopParams ==
    /\ pc = "L112"
    /\ LET d == dicts[cpz.config] IN
          /\ cpz' = SetItem(SetItem(SetItem(cpz,
                        "amplitude", PopValue(d, "amplitude", DefaultAmplitude)),
                        "base_price", PopValue(d, "base_price", DefaultBasePrice)),
                        "trade_count", PopValue(d, "trade_count", DefaultTradeCount))
          /\ dicts' = [dicts EXCEPT ![cpz.config] =
                         DelItem(DelItem(DelItem(d, "amplitude"), "base_price"),
                                 "trade_count")]
    /\ pc' = "L116"
    /\ UNCHANGED <<args, before, gen, envs, sources, algos, ziplines, nextId, calls,
                   exc, result>>

\* line 116: trading_environment = create_trading_environment()
CreateEnvironment ==
    /\ pc = "L116"
    /\ calls' = Append(calls, "create_trading_environment")
    /\ \/ \E env \in Environments :
             /\ envs' = Alloc(envs, env)
             /\ cpz' = SetItem(cpz, "trading_environment", nextId)
             /\ nextId' = nextId + 1
             /\ pc' = "L117"
             /\ exc' = exc
       \/ /\ Raise("CollaboratorError")
          /\ UNCHANGED <<envs, cpz, nextId>>
    /\ UNCHANGED <<args, before, gen, dicts, sources, algos, ziplines, result>>

(* ---------------------- create_updown_trade_source --------------------- *)
\* line 43: price = base_price - amplitude/2. (in half units)
InitialPrice(base_price, amplitude) == 2 * base_price - amplitude

\* line 117 (the call) and lines 41-49 (the locals before the loop)
EnterGenerator ==
    /\ pc = "L117"
    /\ gen' = [sid |-> cpz.sid,
               trade_count |-> cpz.trade_count,
               trading_environment |-> cpz.trading_environment,
               base_price |-> cpz.base_price,
               amplitude |-> cpz.amplitude,
               events |-> <<>>,
               price |-> InitialPrice(cpz.base_price, cpz.amplitude),
               cur |-> envs[cpz.trading_environment].first_open,
               change |-> 0,
               i |-> 0,
               volume |-> volume]
    /\ pc' = "L51"
    /\ UNCHANGED <<args, before, cpz, dicts, envs, sources, algos, ziplines, nextId,
                   calls, exc, result>>

\* variant: xrange(trade_count + 1)
LoopRangeShort(trade_count) == xrange(trade_count + 1)

\* line 51: the range the loop runs over
LoopRange(trade_count) == xrange(trade_count + 2)

\* variant: every iteration advances from first_open instead of from cur
LoopBodyStale(g, env) ==
    LET cur == get_next_trading_dt(env.first_open, one_day, env)
        event == [type |-> TRADE, sid |-> g.sid, price |-> g.price,
                  volume |-> g.volume, dt |-> cur]
    IN  [g EXCEPT !.cur = cur,
                  !.events = Append(g.events, event),
                  !.price = g.price + cycle(g.change) * (2 * g.amplitude),
                  !.change = g.change + 1,
                  !.i = g.i + 1]

\* lines 52-64: one iteration of the loop body
LoopBody(g, env) ==
    LET cur == get_next_trading_dt(g.cur, one_day, env)
        event == [type |-> TRADE, sid |-> g.sid, price |-> g.price,
                  volume |-> g.volume, dt |-> cur]
    IN  [g EXCEPT !.cur = cur,
                  !.events = Append(g.events, event),
                  !.price = g.price + cycle(g.change) * (2 * g.amplitude),
                  !.change = g.change + 1,
                  !.i = g.i + 1]

\* line 51: for i in xrange(trade_count + 2), with its body
LoopIteration ==
    /\ pc = "L51"
    /\ gen.i \in LoopRange(gen.trade_count)
    /\ gen' = LoopBody(gen, envs[gen.trading_environment])
    /\ calls' = Append(calls, "get_next_trading_dt")
    /\ UNCHANGED <<pc, args, before, cpz, dicts, envs, sources, algos, ziplines,
                   nextId, exc, result>>

\* line 51: the loop is exhausted
LoopExit ==
    /\ pc = "L51"
    /\ gen.i \notin LoopRange(gen.trade_count)
    /\ pc' = "L66"
    /\ UNCHANGED <<args, before, cpz, gen, dicts, envs, sources, algos, ziplines,
                   nextId, calls, exc, result>>

\* variant: the first event's instant instead of the final cursor
PeriodEndFirst(g) == IF g.events = <<>> THEN g.cur ELSE g.events[1].dt

\* line 66: the value written to period_end
PeriodEndValue(g) == g.cur

\* line 66: trading_environment.period_end = cur
SetPeriodEnd ==
    /\ pc = "L66"
    /\ envs' = [envs EXCEPT ![gen.trading_environment].period_end =
                   PeriodEndValue(gen)]
    /\ calls' = Append(calls, "set_period_end")
    /\ pc' = "L68"
    /\ UNCHANGED <<args, before, cpz, gen, dicts, sources, algos, ziplines, nextId,
                   exc, result>>

\* lines 68-70: source = SpecificEquityTrades(...); return source
\* (and the assignment to source at line 117)
ReturnSource ==
    /\ pc = "L68"
    /\ sources' = Alloc(sources, [name |-> <<"updown_", gen.sid>>,
                                  events |-> gen.events])
    /\ cpz' = SetItem(cpz, "source", nextId)
    /\ nextId' = nextId + 1
    /\ calls' = Append(calls, "SpecificEquityTrades")
    /\ pc' = "L123"
    /\ UNCHANGED <<args, before, gen, dicts, envs, algos, ziplines, exc, result>>

(* ----------------- create_predictable_zipline, continued --------------- *)
\* variant: the default algorithm is constructed and stored unconditionally
ResolveAlgorithmAlways ==
    /\ pc = "L123"
    /\ calls' = Append(calls, "BuySellAlgorithm")
    /\ algos' = Alloc(algos, [sid |-> cpz.sid, amount |-> OrderAmount,
                              offset |-> args.offset])
    /\ dicts' = [dicts EXCEPT ![cpz.config] = SetItem(@, "algorithm", nextId)]
    /\ nextId' = nextId + 1
    /\ pc' = "L126"
    /\ UNCHANGED <<args, before, cpz, gen, envs, sources, ziplines, exc, result>>

\* lines 123-124: if 'algorithm' not in config: config['algorithm'] = ...
ResolveAlgorithm ==
    /\ pc = "L123"
    /\ IF ~Has(dicts[cpz.config], "algorithm")
          THEN /\ calls' = Append(calls, "BuySellAlgorithm")
               /\ \/ /\ algos' = Alloc(algos, [sid |-> cpz.sid,
                                               amount |-> OrderAmount,
                                               offset |-> args.offset])
                     /\ dicts' = [dicts EXCEPT ![cpz.config] =
                                     SetItem(@, "algorithm", nextId)]
                     /\ nextId' = nextId + 1
                     /\ pc' = "L126"
                     /\ exc' = exc
                  \/ /\ Raise("CollaboratorError")
                     /\ UNCHANGED <<algos, dicts, nextId>>
          ELSE /\ pc' = "L126"
               /\ UNCHANGED <<algos, dicts, nextId, calls, exc>>
    /\ UNCHANGED <<args, before, cpz, gen, envs, sources, ziplines, result>>

\* variant: order_count = trade_count
OrderCountSame(trade_count) == trade_count

\* line 126: the derived order count
OrderCount(trade_count) == trade_count - 1

\* lines 126-130: the derived keys
InsertDerived ==
    /\ pc = "L126"
    /\ dicts' = [dicts EXCEPT ![cpz.config] =
          SetItem(SetItem(SetItem(SetItem(SetItem(@,
              "order_count", OrderCount(cpz.trade_count)),
              "trade_count", cpz.trade_count),
              "trade_source", cpz.source),
              "environment", cpz.trading_environment),
              "simulation_style", FIXED_SLIPPAGE)]
    /\ pc' = "L132"
    /\ UNCHANGED <<args, before, cpz, gen, envs, sources, algos, ziplines, nextId,
                   calls, exc, result>>

\* line 132: zipline = SimulatedTrading.create_test_zipline(**config)
CreateZipline ==
    /\ pc = "L132"
    /\ calls' = Append(calls, "create_test_zipline")
    /\ \/ /\ ziplines' = Alloc(ziplines, [options |-> dicts[cpz.config],
                                          simulated |-> <<>>])
          /\ cpz' = SetItem(cpz, "zipline", nextId)
          /\ nextId' = nextId + 1
          /\ pc' = "L134"
          /\ exc' = exc
       \/ /\ Raise("CollaboratorError")
          /\ UNCHANGED <<ziplines, cpz, nextId>>
    /\ UNCHANGED <<args, before, gen, dicts, envs, sources, algos, result>>

\* variant: zipline.simulate(blocking=True) whatever the flag
SimulateAlways ==
    /\ pc = "L134"
    /\ calls' = Append(calls, "simulate")
    /\ ziplines' = [ziplines EXCEPT ![cpz.zipline].simulated =
                       Append(@, [blocking |-> TRUE])]
    /\ pc' = "L137"
    /\ UNCHANGED <<args, before, cpz, gen, dicts, envs, sources, algos, nextId,
                   exc, result>>

\* lines 134-135: if simulate: zipline.simulate(blocking=True)
Simulate ==
    /\ pc = "L134"
    /\ IF args.simulate
          THEN /\ calls' = Append(calls, "simulate")
               /\ ziplines' = [ziplines EXCEPT ![cpz.zipline].simulated =
                                  Append(@, [blocking |-> TRUE])]
               /\ \/ /\ pc' = "L137"
                     /\ exc' = exc
                  \/ Raise("CollaboratorError")
          ELSE /\ pc' = "L137"
               /\ UNCHANGED <<calls, ziplines, exc>>
    /\ UNCHANGED <<args, before, cpz, gen, dicts, envs, sources, algos, nextId, result>>

\* line 137: return zipline, config
Return ==
    /\ pc = "L137"
    /\ result' = <<cpz.zipline, cpz.config>>
    /\ pc' = "returned"
    /\ UNCHANGED <<args, before, cpz, gen, dicts, envs, sources, algos, ziplines,
                   nextId, calls, exc>>

Next ==
    \/ Copy
    \/ LookupSid
    \/ PopParams
    \/ CreateEnvironment
    \/ EnterGenerator
    \/ LoopIteration
    \/ LoopExit
    \/ SetPeriodEnd
    \/ ReturnSource
    \/ ResolveAlgorithm
    \/ InsertDerived
    \/ CreateZipline
    \/ Simulate
    \/ Return

Spec == Init /\ [][Next]_vars

(* ===================== properties of the generator ===================== *)
Count(seq, x) == Cardinality({i \in DOMAIN seq : seq[i] = x})

Called(fn) == \E i \in DOMAIN calls : calls[i] = fn

\* the generator has been entered: its locals are bound
InGenerator == Has(gen, "events")

\* the generator has returned its data source
SourceReturned == Has(cpz, "source")

GenEnv == envs[gen.trading_environment]

C2_Prices ==
    InGenerator =>
        LET ev == gen.events
            low == 2 * gen.base_price - gen.amplitude
            high == 2 * gen.base_price + gen.amplitude
        IN  /\ ev # <<>> => ev[1].price = low
            /\ \A i \in 0 .. Len(ev) - 2 :
                  ev[i + 2].price = ev[i + 1].price +
                      (IF i % 2 = 0 THEN 2 * gen.amplitude
                                    ELSE -(2 * gen.amplitude))
            /\ \A i \in 0 .. Len(ev) - 1 :
                  ev[i + 1].price = IF i % 2 = 0 THEN low ELSE high

\* the scenario sid=1, trade_count=3, base_price=50, amplitude=10
C2_Witness ==
    /\ SourceReturned
    /\ gen.sid = 1 /\ gen.trade_count = 3
    /\ gen.base_price = 50 /\ gen.amplitude = 10
    /\ [i \in DOMAIN gen.events |-> gen.events[i].price]
          = <<2 * 45, 2 * 55, 2 * 45, 2 * 55, 2 * 45>>

\* C3: timestamps are strictly increasing, the first one is
\* advance(first_open, one day), so no event carries first_open, and every
\* later one is advance(previous timestamp, one day).
C3_Timestamps ==
    InGenerator =>
        LET ev == gen.events IN
            /\ ev # <<>> =>
                  ev[1].dt = get_next_trading_dt(GenEnv.first_open, 1, GenEnv)
            /\ \A i \in 1 .. Len(ev) - 1 :
                  /\ ev[i + 1].dt = get_next_trading_dt(ev[i].dt, 1, GenEnv)
                  /\ ev[i].dt < ev[i + 1].dt
            /\ \A i \in DOMAIN ev :
                  /\ ev[i].dt # GenEnv.first_open
                  /\ ev[i].dt \notin GenEnv.closed

\* three events, with a closed day skipped between two of them
C3_Witness ==
    /\ InGenerator
    /\ Len(gen.events) >= 3
    /\ \E i \in 1 .. Len(gen.events) - 1 :
          gen.events[i + 1].dt > gen.events[i].dt + 1

\* C4: once the generator has returned, period_end is the final cursor: the
\* last event's timestamp if there is one, first_open if the loop ran zero
\* times (trade_count <= -2); period_end is written exactly once, after the
\* last event and before the data source is built and returned.
C4_PeriodEnd ==
    InGenerator =>
        LET ev == gen.events
            w == {i \in DOMAIN calls : calls[i] = "set_period_end"}
        IN  /\ ~Called("set_period_end") =>
                  /\ ~SourceReturned
                  /\ ~Called("SpecificEquityTrades")
                  /\ GenEnv.period_end = GenEnv.first_open + PeriodEndDefault
            /\ Called("set_period_end") =>
                  /\ Cardinality(w) = 1
                  /\ GenEnv.period_end = gen.cur
                  /\ ev # <<>> => GenEnv.period_end = ev[Len(ev)].dt
                  /\ gen.trade_count <= -2 =>
                        ev = <<>> /\ GenEnv.period_end = GenEnv.first_open
                  /\ Len(ev) = Count(calls, "get_next_trading_dt")
                  /\ \A i \in w, j \in DOMAIN calls :
                        /\ calls[j] = "get_next_trading_dt" => j < i
                        /\ calls[j] = "SpecificEquityTrades" => i < j
            /\ SourceReturned => Called("set_period_end")

C4_Witness ==
    /\ pc = "returned"
    /\ Len(gen.events) >= 2
    /\ GenEnv.period_end = gen.events[Len(gen.events)].dt
    /\ gen.events[Len(gen.events)].dt > gen.events[1].dt

(* ====================== properties of the composer ===================== *)
Final == dicts[result[2]]

TradeCountUsed == PopValue(before, "trade_count", 3)

\* C5: the caller's mapping keeps exactly its keys and values, whether the
\* call returns or fails, and the returned configuration is another object.
C5_CallerConfigUntouched ==
    /\ dicts[args.config] = before
    /\ pc = "returned" => result[2] # args.config

C5_Witness ==
    /\ pc = "returned"
    /\ Has(before, "amplitude") /\ Has(before, "trade_count")
    /\ ~Has(before, "algorithm")
    /\ ~Has(Final, "amplitude") /\ Has(Final, "algorithm")

\* C6: in the returned configuration order_count = trade_count - 1, with
\* trade_count the caller's value or 3; a caller's own order_count is
\* overwritten.
C6_OrderCount ==
    pc = "returned" =>
        /\ Final["trade_count"] = TradeCountUsed
        /\ Final["order_count"] = Final["trade_count"] - 1
        /\ Final["order_count"] = TradeCountUsed - 1

\* defaults (3, 2) with a caller-supplied order_count that is overwritten
C6_Witness ==
    /\ pc = "returned"
    /\ ~Has(before, "trade_count")
    /\ Has(before, "order_count") /\ before["order_count"] # 2
    /\ Final["trade_count"] = 3 /\ Final["order_count"] = 2

\* C7: with an algorithm key in the input, the configuration keeps that very
\* object, no default strategy is constructed and offset shows nowhere;
\* without it, the default strategy is constructed exactly once with
\* (sid, 100, offset) and inserted.
C7_Algorithm ==
    /\ Has(before, "algorithm") =>
          /\ ~Called("BuySellAlgorithm")
          /\ algos = NoHeap
          /\ pc = "returned" => Final["algorithm"] = before["algorithm"]
          /\ \A z \in DOMAIN ziplines :
                ziplines[z].options["algorithm"] = before["algorithm"]
    /\ ~Has(before, "algorithm") =>
          /\ Count(calls, "BuySellAlgorithm") <= 1
          /\ Cardinality(DOMAIN algos) <= 1
          /\ pc \in {"L126", "L132", "L134", "L137", "returned"} =>
                /\ Count(calls, "BuySellAlgorithm") = 1
                /\ DOMAIN algos = {dicts[cpz.config]["algorithm"]}
                /\ algos[dicts[cpz.config]["algorithm"]] =
                      [sid |-> before["sid"], amount |-> 100,
                       offset |-> args.offset]

C7_Witness ==
    /\ pc = "returned"
    /\ ~Has(before, "algorithm")
    /\ args.offset = 5
    /\ algos[Final["algorithm"]].offset = 5

\* C8: without a sid key the call fails with a missing-key error before any
\* collaborator is touched and nothing is returned.
C8_MissingSid ==
    ~Has(before, "sid") =>
        /\ pc \in {"L109", "L110", "raised"}
        /\ pc = "raised" => exc = "KeyError"
        /\ calls = <<>>
        /\ envs = NoHeap /\ sources = NoHeap /\ algos = NoHeap
        /\ ziplines = NoHeap
        /\ gen = NoFrame
        /\ result = <<>>

C8_Witness ==
    /\ ~Has(before, "sid")
    /\ pc = "raised"
    /\ exc = "KeyError"

Composed ==
    {"sid", "environment", "trade_source", "algorithm", "order_count",
     "trade_count", "simulation_style"}

Overwritten ==
    {"order_count", "trade_count", "trade_source", "environment",
     "simulation_style"}

\* C9: the final configuration has the sid, environment, trade_source,
\* algorithm, order_count, trade_count and simulation_style keys and every
\* passthrough key with its original value; amplitude and base_price are in
\* neither the final configuration nor the engine's options; trade_source,
\* environment and simulation_style are the composed ones.
C9_FinalConfig ==
    /\ \A z \in DOMAIN ziplines :
          /\ ~Has(ziplines[z].options, "amplitude")
          /\ ~Has(ziplines[z].options, "base_price")
          /\ Composed \subseteq DOMAIN ziplines[z].options
    /\ pc = "returned" =>
          /\ Composed \subseteq DOMAIN Final
          /\ ~Has(Final, "amplitude") /\ ~Has(Final, "base_price")
          /\ \A k \in DOMAIN before \ (Overwritten \cup {"amplitude", "base_price"}) :
                Has(Final, k) /\ Final[k] = before[k]
          /\ Final["trade_source"] = cpz.source
          /\ Final["trade_source"] \in DOMAIN sources
          /\ Final["environment"] = cpz.trading_environment
          /\ Final["environment"] \in DOMAIN envs
          /\ Final["simulation_style"] = "FIXED_SLIPPAGE"
          /\ ziplines[result[1]].options = Final

C9_Witness ==
    /\ pc = "returned"
    /\ Has(before, "amplitude") /\ Has(before, "base_price")
    /\ Has(before, "capital_base") /\ Has(before, "trade_source")
    /\ Final["capital_base"] = before["capital_base"]
    /\ Final["trade_source"] # before["trade_source"]
    /\ Final["simulation_style"] # before["simulation_style"]

Rank(c) ==
    CASE c = "create_trading_environment" -> 1
      [] c = "get_next_trading_dt" -> 2
      [] c = "set_period_end" -> 3
      [] c = "SpecificEquityTrades" -> 4
      [] c = "BuySellAlgorithm" -> 5
      [] c = "create_test_zipline" -> 6
      [] c = "simulate" -> 7

\* C10: environment creation, event generation with the period_end write,
\* algorithm resolution, engine construction and simulate happen in this
\* order; simulate runs exactly once, blocking, iff the flag is set, after
\* the engine is constructed and before the return; with the flag unset it
\* never runs and the engine and the final configuration are still returned.
C10_Order ==
    /\ \A i, j \in DOMAIN calls :
          i < j => /\ Rank(calls[i]) <= Rank(calls[j])
                   /\ Rank(calls[i]) = Rank(calls[j]) =>
                         calls[i] = "get_next_trading_dt"
    /\ Called("create_test_zipline") =>
          /\ Called("create_trading_environment")
          /\ Called("set_period_end")
          /\ Called("SpecificEquityTrades")
          /\ Has(dicts[cpz.config], "algorithm")
    /\ Called("simulate") => Called("create_test_zipline") /\ args.simulate
    /\ \A z \in DOMAIN ziplines :
          /\ Len(ziplines[z].simulated) = Count(calls, "simulate")
          /\ \A i \in DOMAIN ziplines[z].simulated :
                ziplines[z].simulated[i].blocking
    /\ pc = "returned" =>
          /\ Count(calls, "create_test_zipline") = 1
          /\ Count(calls, "simulate") = IF args.simulate THEN 1 ELSE 0
          /\ result[1] = cpz.zipline /\ result[1] \in DOMAIN ziplines
          /\ result[2] = cpz.config /\ result[2] \in DOMAIN dicts
    /\ pc # "returned" => result = <<>>

C10_Witness ==
    /\ pc = "returned"
    /\ args.simulate
    /\ ~Has(before, "algorithm")
    /\ calls[Len(calls)] = "simulate"
    /\ calls[Len(calls) - 1] = "create_test_zipline"
    /\ calls[Len(calls) - 2] = "BuySellAlgorithm"

\* with the flag unset the engine is constructed and returned unsimulated
C10_WitnessNoRun ==
    /\ pc = "returned"
    /\ ~args.simulate
    /\ ziplines[result[1]].simulated = <<>>


====
